---- MODULE Spec2Model ----
(***************************************************************************)
(* A model of the llama-family decoder stack (package llama: New,          *)
(* SelfAttention.Forward, Model.Shift, MLP.Forward, Layer.Forward,         *)
(* Model.Forward) and of the runner's stop-sequence helpers (package       *)
(* common: TruncateStop, IncompleteUnicode).                               *)
(*                                                                         *)
(* A tensor is modelled by its batch dimension: a sequence with one        *)
(* integer per column (position), standing for that position's feature     *)
(* vector.  The tensor substrate, the linear/norm primitives and the       *)
(* causal cache live outside the modelled source files; they are modelled  *)
(* from their contract.                                                    *)
(***************************************************************************)
EXTENDS Integers, Sequences, FiniteSets, TLC

VARIABLES
    pc,         \* "start" | "ready" | "failed" | "panicked"
    cfg,        \* the ml.Config handed to New
    m,          \* the constructed Model (Options, len(Layers), vocabulary)
    newErr,     \* the error New returned
    cache,      \* m.Cache: active layer, batch positions, per-layer entries
    nextPos,    \* the caller's next absolute position
    hist,       \* batch sizes of the successful Forward calls so far
    call,       \* the last Forward call: arguments, entry cache, results
    shiftCall,  \* the last Shift call: arguments, rotary call issued, results
    resps,      \* TruncateStop: the pieces (contents of the responses)
    stop,       \* TruncateStop: the stop string
    tsOut,      \* TruncateStop: what it returned
    token,      \* IncompleteUnicode: the byte string
    iuOut       \* IncompleteUnicode: what it returned

vars == <<pc, cfg, m, newErr, cache, nextPos, hist, call, shiftCall,
          resps, stop, tsOut, token, iuOut>>

decoderVars == <<pc, cfg, m, newErr, cache, nextPos, hist, call, shiftCall>>
stopVars == <<resps, stop, tsOut>>
unicodeVars == <<token, iuOut>>

(***************************************************************************)
(* Bounds of the model.                                                    *)
(***************************************************************************)
MaxLayers == 2      \* block_count ranges over 0..MaxLayers
MaxPos == 3         \* positions handed out by the caller: 0..MaxPos-1
MaxBatch == 2       \* batch size of one Forward call: 1..MaxBatch
MaxPieces == 3      \* TruncateStop: number of pieces
MaxPieceLen == 2    \* TruncateStop: bytes in a piece, and in the stop string
MaxTokenLen == 5    \* IncompleteUnicode: bytes in the token

Tokens == {1, 2}

Min(a, b) == IF a < b THEN a ELSE b

RECURSIVE SeqSum(_)
SeqSum(s) == IF s = <<>> THEN 0 ELSE Head(s) + SeqSum(Tail(s))

\* Strictly increasing index sequences over 0..n-1 (the subsets of the rows).
RECURSIVE IncSeqs(_, _)
IncSeqs(lo, n) ==
    IF lo >= n THEN {<<>>}
    ELSE IncSeqs(lo + 1, n) \cup {<<lo>> \o s : s \in IncSeqs(lo + 1, n)}

(***************************************************************************)
(* Tensor substrate (ml.Tensor, ml.Context), modelled from its contract.   *)
(***************************************************************************)
\* One column's value; arithmetic on columns wraps into a small range.
Val(x) == x % 7

\* The columns of a tensor, as an explicit sequence.
Cols(f) == f \o <<>>

NilTensor == [isNil |-> TRUE, data |-> <<>>]
Tensor(s) == [isNil |-> FALSE, data |-> s]

\* ctx.Input().FromIntSlice(s, len(s)): a tensor of the integers, or an error.
FromIntSlice(s, fails) ==
    IF fails THEN [t |-> NilTensor, err |-> "conversion"]
    ELSE [t |-> Tensor(s), err |-> "nil"]

\* t.Rows(ctx, idx): gathers the columns idx (0-based) of t, in idx's order.
Rows(t, idx) == Cols([j \in 1..Len(idx) |-> t[idx[j] + 1]])

\* a.Add(ctx, b): elementwise, column by column.
Add(a, b) == Cols([j \in 1..Len(a) |-> Val(a[j] + b[j])])

\* nn.Linear.Forward: an affine map applied to each column on its own.
LinearForward(w, x) == Cols([j \in 1..Len(x) |-> Val(w * x[j] + 1)])

\* nn.RMSNorm.Forward: a normalisation applied to each column on its own.
RMSNormForward(w, x, eps) ==
    Cols([j \in 1..Len(x) |-> Val(x[j] * x[j] + w + eps)])

\* nn.Embedding.Forward: one column per token id.
EmbeddingForward(ids) == Cols([j \in 1..Len(ids) |-> Val(3 * ids[j] + 1)])

\* t.RoPE(ctx, positions, factors, dim, type, base, scale): the rotary
\* primitive, parameters in this order; rotates each column by its position.
RoPE(t, positions, factors, ropeDim, ropeType, base, scale) ==
    Cols([j \in 1..Len(t) |->
        Val(t[j] + ropeDim * positions[j] * (1 + factors + ropeType + base * scale))])

\* silu(gate) (.) up, per column.
SILUMul(g, u) == Cols([j \in 1..Len(g) |-> Val(g[j] * g[j] * u[j] + g[j])])

(***************************************************************************)
(* Causal cache (kvcache.Cache), modelled from its contract (spec 4.1).   *)
(***************************************************************************)
NewCausalCache(nLayers) ==
    [curLayer |-> 0, batchPos |-> <<>>, layers |-> [l \in 0..(nLayers - 1) |-> <<>>]]

\* The runner announces the batch's absolute positions before Forward.
StartForward(ch, positions) == [ch EXCEPT !.batchPos = positions]

SetLayer(ch, i) == [ch EXCEPT !.curLayer = i]

\* append: one entry per column of the call, onto the active layer.
CachePut(ch, k, v) ==
    [ch EXCEPT !.layers[ch.curLayer] =
        @ \o Cols([j \in 1..Len(k) |-> [pos |-> ch.batchPos[j], k |-> k[j], v |-> v[j]]])]

CacheGet(ch) == ch.layers[ch.curLayer]

\* attend: column j of the query sees the entries at positions <= its own.
RECURSIVE AttendOne(_, _, _, _)
AttendOne(qv, p, entries, scale) ==
    IF entries = <<>> THEN 0
    ELSE LET e == Head(entries)
         IN (IF e.pos <= p THEN Val(qv * e.k * scale + e.v + 1) ELSE 0)
            + AttendOne(qv, p, Tail(entries), scale)

Attend(q, entries, positions, scale) ==
    Cols([j \in 1..Len(q) |-> Val(AttendOne(q[j], positions[j], entries, scale))])

Event(op, layer, target, n, args) ==
    [op |-> op, layer |-> layer, target |-> target, n |-> n, args |-> args]

\* nn.Attention(ctx, q, k, v, scale, cache): append, then attend.
Attention(l, q, k, v, scale, ch, tr) ==
    LET ch1 == CachePut(ch, k, v)
    IN [out |-> Attend(q, CacheGet(ch1), ch.batchPos, scale),
        cache |-> ch1,
        trace |-> tr \o <<Event("Put", l, ch.curLayer, Len(k), <<>>),
                          Event("Get", l, ch1.curLayer, Len(q), <<>>)>>]

(***************************************************************************)
(* Package llama.                                                          *)
(***************************************************************************)
NoModel == [built |-> FALSE]

\* The configurations New is tried on: a base configuration, and the
\* configurations that differ from it in the layer count, in the tokenizer,
\* in the head counts, or in the rotary and head-dimension settings.
BaseConfig ==
    [tokenizer |-> "gpt2", block_count |-> 1, embedding_length |-> 8,
     head_count |-> 2, head_count_kv |-> 1, key_length |-> 0, eps |-> 1,
     rope_base |-> 10, has_rope_scale |-> FALSE, rope_scale |-> 0,
     rope_dim |-> 2, n_tokens |-> 3]

Configs ==
    {[BaseConfig EXCEPT !.block_count = n] : n \in 0..MaxLayers}
    \cup {[BaseConfig EXCEPT !.tokenizer = t] : t \in {"GPT2", "llama"}}
    \cup {[BaseConfig EXCEPT !.head_count = h[1], !.head_count_kv = h[2]] :
              h \in {<<2, 2>>, <<3, 2>>, <<1, 2>>}}
    \cup {[BaseConfig EXCEPT !.rope_dim = 0, !.key_length = 4,
                             !.has_rope_scale = TRUE, !.rope_scale = 2]}

\* strings.EqualFold: equality under case folding.
ToLower(s) == IF s = "GPT2" THEN "gpt2" ELSE s
EqualFold(a, b) == ToLower(a) = ToLower(b)

\* c.Float(key, default): the default when the key is absent.
CfgRopeScale(c) == IF c.has_rope_scale THEN c.rope_scale ELSE 1

\* New's check of the configuration: the tokenizer family, nothing else.
NewError(c) ==
    IF ~EqualFold(c.tokenizer, "gpt2") THEN "tokenizer not yet supported" ELSE "nil"

\* The Model New builds: Layers of length block_count, Options from the config.
NewModel(c) ==
    [built |-> TRUE,
     numLayers |-> c.block_count,
     vocab |-> c.n_tokens,
     hiddenSize |-> c.embedding_length,
     numHeads |-> c.head_count,
     numKVHeads |-> c.head_count_kv,
     headDim |-> c.key_length,
     eps |-> c.eps,
     ropeBase |-> c.rope_base,
     ropeScale |-> CfgRopeScale(c),
     ropeDim |-> c.rope_dim]

\* The weights of layer l (loaded tensors; one integer each).
LayerW(l) ==
    [attnNorm |-> l + 1, q |-> l + 2, k |-> l + 3, v |-> 2 * l + 1, o |-> l + 4,
     ropeFactors |-> l + 1, mlpNorm |-> l + 2, up |-> l + 3, down |-> l + 5,
     gate |-> 2 * l + 3]

\* The parameters after the position tensor in the rotary call on K.
KeyRopeArgs(l, opts) ==
    <<LayerW(l).ropeFactors, opts.ropeDim, 0, opts.ropeBase, opts.ropeScale>>

HeadDim(opts) ==
    IF opts.headDim = 0 THEN opts.hiddenSize \div opts.numHeads ELSE opts.headDim

\* SelfAttention.Forward of layer l.
SelfAttentionForward(l, hiddenState, positionIDs, ch, tr, opts) ==
    LET batchSize == Len(hiddenState)
        ropeType == 0
        headDim == HeadDim(opts)
        w == LayerW(l)
        q == RoPE(LinearForward(w.q, hiddenState), positionIDs, w.ropeFactors,
                  opts.ropeDim, ropeType, opts.ropeBase, opts.ropeScale)
        ka == KeyRopeArgs(l, opts)
        k == RoPE(LinearForward(w.k, hiddenState), positionIDs,
                  ka[1], ka[2], ka[3], ka[4], ka[5])
        v == LinearForward(w.v, hiddenState)
        tr1 == tr \o <<Event("RoPEq", l, ch.curLayer, batchSize,
                             <<w.ropeFactors, opts.ropeDim, ropeType,
                               opts.ropeBase, opts.ropeScale>>),
                       Event("RoPEk", l, ch.curLayer, batchSize, ka)>>
        kqv == Attention(l, q, k, v, headDim, ch, tr1)
    IN [out |-> LinearForward(w.o, kqv.out), cache |-> kqv.cache, trace |-> kqv.trace]

\* The parameters after the delta tensor in Shift's rotary call.
ShiftRopeArgs(mdl, layer) ==
    <<LayerW(layer).ropeFactors, 0, mdl.ropeDim, mdl.ropeBase, mdl.ropeScale>>

\* Model.Shift for a layer index within Layers.
ModelShift(mdl, layer, key, shift) ==
    LET a == ShiftRopeArgs(mdl, layer)
    IN [t |-> RoPE(key, shift, a[1], a[2], a[3], a[4], a[5]), err |-> "nil"]

\* MLP.Forward of layer l: down(silu(gate(x)) (.) up(x)).
MLPForward(l, hiddenState) ==
    LET w == LayerW(l)
    IN LinearForward(w.down,
           SILUMul(LinearForward(w.gate, hiddenState), LinearForward(w.up, hiddenState)))

\* Faulty variant: the pruning is done before the attention step.
LayerForwardPruneEarly(l, hiddenState, positionIDs, outputs, ch, tr, opts) ==
    LET w == LayerW(l)
        prune == ~outputs.isNil
        residual == IF prune THEN Rows(hiddenState, outputs.data) ELSE hiddenState
        h1 == RMSNormForward(w.attnNorm, residual, opts.eps)
        tr1 == IF prune
               THEN tr \o <<Event("Rows", l, ch.curLayer, Len(h1), <<>>)>>
               ELSE tr
        sa == SelfAttentionForward(l, h1, positionIDs, ch, tr1, opts)
        h3 == Add(sa.out, residual)
        h4 == RMSNormForward(w.mlpNorm, h3, opts.eps)
        h5 == MLPForward(l, h4)
    IN [hidden |-> Add(h5, h3),
        cache |-> sa.cache,
        trace |-> sa.trace \o <<Event("Add", l, sa.cache.curLayer, Len(h3), <<>>),
                               Event("MLP", l, sa.cache.curLayer, Len(h5), <<>>)>>]

\* Layer.Forward of layer l.
LayerForward(l, hiddenState, positionIDs, outputs, ch, tr, opts) ==
    LET w == LayerW(l)
        residual == hiddenState
        h1 == RMSNormForward(w.attnNorm, hiddenState, opts.eps)
        sa == SelfAttentionForward(l, h1, positionIDs, ch, tr, opts)
        prune == ~outputs.isNil
        h2 == IF prune THEN Rows(sa.out, outputs.data) ELSE sa.out
        residual2 == IF prune THEN Rows(residual, outputs.data) ELSE residual
        tr2 == IF prune
               THEN sa.trace \o <<Event("Rows", l, sa.cache.curLayer, Len(h2), <<>>)>>
               ELSE sa.trace
        h3 == Add(h2, residual2)
        h4 == RMSNormForward(w.mlpNorm, h3, opts.eps)
        h5 == MLPForward(l, h4)
    IN [hidden |-> Add(h5, h3),
        cache |-> sa.cache,
        trace |-> tr2 \o <<Event("Add", l, sa.cache.curLayer, Len(h3), <<>>),
                           Event("MLP", l, sa.cache.curLayer, Len(h5), <<>>)>>]

\* Faulty variant: the active layer is never advanced.
ForwardSetLayerStuck(ch, i) == SetLayer(ch, 0)

\* Model.Forward, loop head: m.Cache.SetLayer(i).
ForwardSetLayer(ch, i) == SetLayer(ch, i)

\* Faulty variant: the outputs go to the first layer instead of the last.
LastLayerOutputsFirst(mdl, i, outputs) ==
    IF i = 0 THEN outputs ELSE NilTensor

\* Model.Forward, loop body: the outputs handed to layer i.
LastLayerOutputs(mdl, i, outputs) ==
    IF i = mdl.numLayers - 1 THEN outputs ELSE NilTensor

\* Faulty variant: the loop stops one layer early.
LoopDoneEarly(mdl, i) == i >= mdl.numLayers - 1

\* Model.Forward: the range loop over m.Layers has passed the last layer.
LoopDone(mdl, i) == i >= mdl.numLayers

\* Model.Forward, the loop over m.Layers from index i on.
RECURSIVE ForwardLayers(_, _, _, _, _)
ForwardLayers(mdl, i, st, positions, outputs) ==
    IF LoopDone(mdl, i) THEN st
    ELSE LET ch1 == ForwardSetLayer(st.cache, i)
             tr1 == st.trace \o <<Event("SetLayer", i, ch1.curLayer, 0, <<>>)>>
             lastLayerOutputs == LastLayerOutputs(mdl, i, outputs)
         IN ForwardLayers(mdl, i + 1,
                LayerForward(i, st.hidden, positions, lastLayerOutputs, ch1, tr1, mdl),
                positions, outputs)

\* The final normalisation and the output projection.
OutputWeights == [norm |-> 2, out |-> 3]
OutputForward(mdl, hiddenState) ==
    [rows |-> mdl.vocab,
     cols |-> LinearForward(OutputWeights.out,
                  RMSNormForward(OutputWeights.norm, hiddenState, mdl.eps))]

NoLogits == [rows |-> 0, cols |-> <<>>]

\* Faulty variant: the error of the outputs conversion is dropped.
ConversionErrorDropsOutputs(inputs, positions, outputs) ==
    IF inputs.err # "nil" THEN inputs.err
    ELSE IF positions.err # "nil" THEN positions.err
    ELSE "nil"

\* Model.Forward, the three conversions: the first error met, checked in the
\* order inputs, positions, outputs, each right after its conversion.
ConversionError(inputs, positions, outputs) ==
    IF inputs.err # "nil" THEN inputs.err
    ELSE IF positions.err # "nil" THEN positions.err
    ELSE IF outputs.err # "nil" THEN outputs.err
    ELSE "nil"

\* Model.Forward.  o: Inputs, Positions, Outputs and which conversion fails.
ModelForward(mdl, ch, o) ==
    LET inputs == FromIntSlice(o.Inputs, o.failAt = "inputs")
        positions == FromIntSlice(o.Positions, o.failAt = "positions")
        outputs == FromIntSlice(o.Outputs, o.failAt = "outputs")
        err == ConversionError(inputs, positions, outputs)
    IN IF err # "nil"
       THEN [logits |-> NoLogits, err |-> err, cache |-> ch, trace |-> <<>>]
       ELSE LET st == ForwardLayers(mdl, 0,
                          [hidden |-> EmbeddingForward(inputs.t.data),
                           cache |-> ch, trace |-> <<>>],
                          positions.t.data, outputs.t)
            IN [logits |-> OutputForward(mdl, st.hidden), err |-> "nil",
                cache |-> st.cache, trace |-> st.trace]

(***************************************************************************)
(* The decoder as a state machine: New once, then Forward and Shift calls  *)
(* issued one at a time by the runner (spec 5: single-threaded).           *)
(***************************************************************************)
NoCache == [curLayer |-> 0, batchPos |-> <<>>, layers |-> <<>>]
NoCall == [done |-> FALSE]
NoShift == [called |-> FALSE]

InitDecoder ==
    /\ pc = "start"
    /\ m = NoModel
    /\ newErr = "none"
    /\ cache = NoCache
    /\ nextPos = 0
    /\ hist = <<>>
    /\ call = NoCall
    /\ shiftCall = NoShift

InitStopIdle ==
    /\ resps = <<>>
    /\ stop = <<>>
    /\ tsOut = [done |-> FALSE]

InitUnicodeIdle ==
    /\ token = <<>>
    /\ iuOut = [done |-> FALSE]

Init ==
    /\ cfg \in Configs
    /\ InitDecoder
    /\ InitStopIdle
    /\ InitUnicodeIdle

\* New(c): an error for an unsupported tokenizer, else the model and its cache.
New ==
    /\ pc = "start"
    /\ newErr' = NewError(cfg)
    /\ IF NewError(cfg) # "nil"
       THEN /\ pc' = "failed"
            /\ UNCHANGED <<m, cache>>
       ELSE /\ pc' = "ready"
            /\ m' = NewModel(cfg)
            /\ cache' = NewCausalCache(cfg.block_count)
    /\ UNCHANGED <<cfg, nextPos, hist, call, shiftCall, stopVars, unicodeVars>>

\* One Forward call on the next b positions.
Forward(b, inputs, outputs, failAt) ==
    /\ pc = "ready"
    /\ nextPos + b <= MaxPos
    /\ LET o == [Inputs |-> inputs,
                 Positions |-> Cols([j \in 1..b |-> nextPos + j - 1]),
                 Outputs |-> outputs,
                 failAt |-> failAt]
           entry == StartForward(cache, o.Positions)
       IN \E r \in {ModelForward(m, entry, o)} :
          /\ cache' = r.cache
          /\ call' = [done |-> TRUE, opts |-> o, before |-> entry,
                      logits |-> r.logits, err |-> r.err, trace |-> r.trace]
          /\ nextPos' = IF r.err = "nil" THEN nextPos + b ELSE nextPos
          /\ hist' = IF r.err = "nil" THEN Append(hist, b) ELSE hist
    /\ UNCHANGED <<pc, cfg, m, newErr, shiftCall, stopVars, unicodeVars>>

\* One Shift call by the cache owner: a stored key tensor and the deltas of
\* its positions.
ShiftKeys == {<<1, 2>>, <<3>>}
ShiftDelta(key) == Cols([j \in 1..Len(key) |-> 0 - 1])

\* Faulty variant: the index one past the last layer is accepted.
LayerIndexInRangeLoose(mdl, layer) == layer \in 0..mdl.numLayers

\* m.Layers[layer]: Go's bounds check on the slice index.
LayerIndexInRange(mdl, layer) == layer \in 0..(mdl.numLayers - 1)

Shift(layer, key, shift) ==
    /\ pc = "ready"
    /\ IF LayerIndexInRange(m, layer)
       THEN \E r \in {ModelShift(m, layer, key, shift)} :
               /\ shiftCall' = [called |-> TRUE, layer |-> layer, panic |-> FALSE,
                                rope |-> ShiftRopeArgs(m, layer),
                                key |-> key, shift |-> shift,
                                out |-> r.t, err |-> r.err]
               /\ pc' = pc
       ELSE \* m.Layers[layer]: index out of range, a run-time panic
            /\ shiftCall' = [called |-> TRUE, layer |-> layer, panic |-> TRUE,
                             rope |-> <<>>, key |-> key, shift |-> shift,
                             out |-> <<>>, err |-> "none"]
            /\ pc' = "panicked"
    /\ UNCHANGED <<cfg, m, newErr, cache, nextPos, hist, call, stopVars, unicodeVars>>

\* A call whose conversion fails reads none of the integers: it is tried on
\* one batch per batch size.
FailingInputs(b) == Cols([j \in 1..b |-> 1])
FailingOutputs(b) == <<b - 1>>

Next ==
    \/ New
    \/ \E b \in 1..MaxBatch :
         \E inputs \in [1..b -> Tokens], outputs \in IncSeqs(0, b) :
              Forward(b, inputs, outputs, "none")
    \/ \E b \in 1..MaxBatch :
         \E failAt \in {"inputs", "positions", "outputs"} :
              Forward(b, FailingInputs(b), FailingOutputs(b), failAt)
    \/ \E layer \in (0 - 1)..MaxLayers, key \in ShiftKeys :
         Shift(layer, key, ShiftDelta(key))

Spec == Init /\ [][Next]_vars

(***************************************************************************)
(* Properties of the decoder.                                              *)
(***************************************************************************)
CallOK == m.built /\ call.done /\ call.err = "nil"

\* The indices of the events of the last call with one of the given ops.
EventsOf(ops) == {p \in DOMAIN call.trace : call.trace[p].op \in ops}

\* C1: Shift's rotary call carries the same parameters, in the same
\* positions, as the rotary call SelfAttention.Forward makes on K in that
\* layer; the two differ only in the rotated tensor and the position tensor.
C1_ShiftMatchesLiveRoPE ==
    (CallOK /\ shiftCall.called /\ ~shiftCall.panic) =>
        \A p \in EventsOf({"RoPEk"}) :
            call.trace[p].layer = shiftCall.layer
                => call.trace[p].args = shiftCall.rope

\* C2: in a successful Forward the active layer is set once per layer, in
\* the order 0..N-1; layer i's append and read come after SetLayer(i) and
\* before SetLayer(i+1), and target the layer being built.
C2_SetLayerOrder ==
    CallOK =>
        LET tr == call.trace
            sets == EventsOf({"SetLayer"})
            before(p) == {s \in sets : s < p}
        IN /\ Cardinality(sets) = m.numLayers
           /\ \A s \in sets : tr[s].target = Cardinality(before(s))
           /\ \A l \in 0..(m.numLayers - 1) :
                \E p, g \in EventsOf({"Put", "Get"}) :
                    /\ tr[p].op = "Put" /\ tr[g].op = "Get"
                    /\ tr[p].layer = l /\ tr[g].layer = l /\ p < g
           /\ \A p \in EventsOf({"Put", "Get"}) :
                /\ tr[p].target = tr[p].layer
                /\ Cardinality(before(p)) = tr[p].layer + 1

C2_Witness ==
    CallOK /\ m.numLayers >= 2 /\ Len(hist) >= 2

\* C3: rows are gathered only in the layer of index N-1, there after the
\* attention step and before the residual add and the feed-forward; every
\* layer appends keys and values for all positions of the batch.
C3_PruneOnlyLastLayer ==
    CallOK =>
        LET tr == call.trace
            b == Len(call.opts.Inputs)
        IN /\ \A r \in EventsOf({"Rows"}) :
                /\ tr[r].layer = m.numLayers - 1
                /\ \E p \in EventsOf({"Put"}) : tr[p].layer = tr[r].layer /\ p < r
                /\ \E g \in EventsOf({"Get"}) : tr[g].layer = tr[r].layer /\ g < r
                /\ \A a \in EventsOf({"Add", "MLP"}) : tr[a].layer = tr[r].layer => r < a
           /\ Cardinality(EventsOf({"Rows"})) = (IF m.numLayers = 0 THEN 0 ELSE 1)
           /\ \A l \in 0..(m.numLayers - 1) :
                /\ \E p \in EventsOf({"Put"}) : tr[p].layer = l /\ tr[p].n = b
                /\ LET es == cache.layers[l]
                   IN /\ Len(es) >= b
                      /\ \A j \in 1..b :
                            es[Len(es) - b + j].pos = call.opts.Positions[j]

C3_Witness ==
    /\ CallOK /\ m.numLayers >= 2
    /\ Len(call.opts.Inputs) >= 2
    /\ Len(call.opts.Outputs) = 1
    /\ EventsOf({"Rows"}) # {}

\* C4: every layer's cache holds one entry per position processed so far,
\* in strictly increasing position order (k entries after k single-token
\* calls); each Forward makes exactly one append per layer, of batch size.
C4_CacheGrowth ==
    m.built =>
        \A l \in 0..(m.numLayers - 1) :
            LET es == cache.layers[l]
            IN /\ Len(es) = SeqSum(hist)
               /\ \A i, j \in 1..Len(es) : i < j => es[i].pos < es[j].pos
               /\ (\A i \in 1..Len(hist) : hist[i] = 1) => Len(es) = Len(hist)
               /\ CallOK =>
                    /\ Len(es) = Len(call.before.layers[l]) + Len(call.opts.Inputs)
                    /\ Cardinality({p \in EventsOf({"Put"}) :
                                       call.trace[p].target = l}) = 1

C4_Witness ==
    /\ CallOK /\ m.numLayers >= 2
    /\ hist = <<1, 1, 1>>
    /\ \A l \in 0..(m.numLayers - 1) : Len(cache.layers[l]) = 3

\* C5: the logits of a successful Forward have vocabulary-size rows and one
\* column per requested output index, whatever the layer count.
C5_LogitsShape ==
    CallOK =>
        /\ call.logits.rows = m.vocab
        /\ Len(call.logits.cols) = Len(call.opts.Outputs)

\* C6: New fails on a configuration whose head count is not a multiple of
\* its key/value head count; every constructed model has
\* numHeads % numKVHeads = 0.
C6_HeadsDivisible ==
    /\ (pc # "start" /\ cfg.head_count % cfg.head_count_kv # 0) => newErr # "nil"
    /\ m.built => m.numHeads % m.numKVHeads = 0

\* The logits of the last call's batch computed for all positions.
AllIndices(b) == Cols([j \in 1..b |-> j - 1])
FullLogits ==
    ModelForward(m, call.before,
        [call.opts EXCEPT !.Outputs = AllIndices(Len(call.opts.Inputs))]).logits

\* C7: for a non-empty set of output indices, the logits Forward computes
\* through the last layer's pruning equal the logits computed for all
\* positions with those rows selected afterwards.
C7_PruningEquivalence ==
    (CallOK /\ m.numLayers >= 1 /\ call.opts.Outputs # <<>>) =>
        /\ call.logits.rows = FullLogits.rows
        /\ call.logits.cols = Rows(FullLogits.cols, call.opts.Outputs)

C7_Witness ==
    /\ CallOK /\ m.numLayers >= 2
    /\ Len(hist) >= 2
    /\ Len(call.opts.Inputs) >= 2
    /\ Len(call.opts.Outputs) = 1
    /\ call.logits.cols # <<>>

\* C11: when the conversion of the inputs, of the positions or of the outputs
\* fails, Forward returns that error and no logits, and has issued no cache
\* or layer operation (no SetLayer, no append, no read, no layer forward):
\* the cache after the call is the cache Forward was entered with, and no
\* layer has grown.
C11_FailedConversionLeavesCache ==
    (m.built /\ call.done /\ call.opts.failAt # "none") =>
        /\ call.err = "conversion"
        /\ call.logits = NoLogits
        /\ call.trace = <<>>
        /\ cache = call.before
        /\ \A l \in 0..(m.numLayers - 1) : Len(cache.layers[l]) = SeqSum(hist)

\* A failed outputs conversion on a model with layers whose cache already
\* holds entries.
C11_Witness ==
    /\ m.built /\ m.numLayers >= 1
    /\ call.done /\ call.opts.failAt = "outputs"
    /\ call.err = "conversion"
    /\ hist # <<>>
    /\ cache.layers[0] # <<>>

\* C12: a Shift call with a layer index outside 0..len(Layers)-1 panics: it
\* returns nothing, no error value either, and the program does not go on;
\* a call with an index inside the range returns a tensor of the key's shape,
\* the key re-encoded by the rotary primitive, and the error nil; and no
\* Shift call, of either kind, changes the model or the cache.
C12_ShiftPanicsOrReturns ==
    [][shiftCall' # shiftCall =>
          /\ m' = m
          /\ cache' = cache
          /\ shiftCall'.called
          /\ IF shiftCall'.layer >= 0 /\ shiftCall'.layer < m.numLayers
             THEN /\ ~shiftCall'.panic
                  /\ shiftCall'.err = "nil"
                  /\ Len(shiftCall'.out) = Len(shiftCall'.key)
                  /\ shiftCall'.out =
                       RoPE(shiftCall'.key, shiftCall'.shift,
                            shiftCall'.rope[1], shiftCall'.rope[2],
                            shiftCall'.rope[3], shiftCall'.rope[4],
                            shiftCall'.rope[5])
                  /\ pc' = "ready"
             ELSE /\ shiftCall'.panic
                  /\ shiftCall'.err = "none"
                  /\ shiftCall'.out = <<>>
                  /\ pc' = "panicked"]_vars

\* A Shift call with the index len(Layers) on a model with layers whose
\* cache holds entries: the program has panicked.
C12_Witness ==
    /\ m.built /\ m.numLayers >= 1
    /\ shiftCall.called /\ shiftCall.layer = m.numLayers
    /\ shiftCall.panic /\ pc = "panicked"
    /\ cache.layers[0] # <<>>

(***************************************************************************)
(* Package common: TruncateStop.  A string is a sequence of bytes; a       *)
(* response is modelled by its Content.                                    *)
(***************************************************************************)
StopBytes == {97, 98}

\* All byte strings over alphabet of length at most n.
StringsUpTo(alphabet, n) == UNION {[1..k -> alphabet] : k \in 0..n}

RECURSIVE Concat(_)
Concat(pieces) == IF pieces = <<>> THEN <<>> ELSE Head(pieces) \o Concat(Tail(pieces))

\* strings.Index: the offset of the first occurrence of sub in s, or -1.
Occurs(s, sub, i) ==
    i + Len(sub) <= Len(s) /\ \A j \in 1..Len(sub) : s[i + j] = sub[j]
Index(s, sub) ==
    IF \E i \in 0..Len(s) : Occurs(s, sub, i)
    THEN CHOOSE i \in 0..Len(s) :
            Occurs(s, sub, i) /\ \A j \in 0..(i - 1) : ~Occurs(s, sub, j)
    ELSE 0 - 1

\* Faulty variant: empty chunks are appended too.
KeepChunkAlways(chunk) == TRUE

\* TruncateStop, loop body: only a non-empty chunk is appended.
KeepChunk(chunk) == Len(chunk) > 0

\* TruncateStop, the loop over resps from index i on.
RECURSIVE TruncateLoop(_, _, _, _, _, _)
TruncateLoop(rs, truncated, i, pos, result, truncationHappened) ==
    IF i > Len(rs) \/ pos >= Len(truncated)
    THEN [pieces |-> result, truncated |-> truncationHappened]
    ELSE LET content == rs[i]
             chunk == SubSeq(truncated, pos + 1,
                             Min(pos + Len(content), Len(truncated)))
         IN TruncateLoop(rs, truncated, i + 1, pos + Len(content),
                IF KeepChunk(chunk) THEN Append(result, chunk) ELSE result,
                truncationHappened \/ Len(chunk) < Len(content))

\* TruncateStop, nothing before the stop: return nil, true.
StopAtStart == [pieces |-> <<>>, truncated |-> TRUE]

TruncateStop(rs, st) ==
    LET sequence == Concat(rs)
        idx == Index(sequence, st)
    IN IF idx < 0 THEN [pieces |-> rs, truncated |-> FALSE]
       ELSE LET truncated == SubSeq(sequence, 1, idx)
            IN IF Len(truncated) = 0 THEN StopAtStart
               ELSE TruncateLoop(rs, truncated, 1, 0, <<>>, FALSE)

InitStop ==
    /\ cfg = BaseConfig
    /\ InitDecoder
    /\ InitUnicodeIdle
    /\ resps \in UNION {[1..n -> StringsUpTo(StopBytes, MaxPieceLen)] : n \in 0..MaxPieces}
    /\ stop \in StringsUpTo(StopBytes, MaxPieceLen)
    /\ tsOut = [done |-> FALSE]

CallTruncateStop ==
    /\ ~tsOut.done
    /\ \E r \in {TruncateStop(resps, stop)} :
          tsOut' = [done |-> TRUE, pieces |-> r.pieces, truncated |-> r.truncated]
    /\ UNCHANGED <<decoderVars, resps, stop, unicodeVars>>

NextStop == CallTruncateStop

SpecStop == InitStop /\ [][NextStop]_vars

(***************************************************************************)
(* Package common: IncompleteUnicode.                                      *)
(***************************************************************************)
\* ASCII, and the first and last byte of each class: continuation, 2-, 3-
\* and 4-byte lead; and an invalid byte.
UnicodeBytes == {65, 128, 191, 192, 223, 224, 239, 240, 247, 248}

\* c & mask, for a mask that keeps the bits above the low ones.
HighBits(c, low) == c - (c % low)

\* Faulty variant: a 3-byte lead is judged like a 2-byte lead.
LeadIncompleteShort(c, i) ==
    IF HighBits(c, 32) = 192 THEN i < 2
    ELSE IF HighBits(c, 16) = 224 THEN i < 2
    ELSE IF HighBits(c, 8) = 240 THEN i < 4
    ELSE FALSE

\* IncompleteUnicode, the lead byte c found i bytes from the end.
LeadIncomplete(c, i) ==
    IF HighBits(c, 32) = 192 THEN i < 2
    ELSE IF HighBits(c, 16) = 224 THEN i < 3
    ELSE IF HighBits(c, 8) = 240 THEN i < 4
    ELSE FALSE

\* IncompleteUnicode, the loop from i on.
RECURSIVE IncompleteLoop(_, _)
IncompleteLoop(tok, i) ==
    IF ~(i < 5 /\ i <= Len(tok)) THEN FALSE
    ELSE LET c == tok[Len(tok) - i + 1]
         IN IF HighBits(c, 64) = 128 THEN IncompleteLoop(tok, i + 1)
            ELSE LeadIncomplete(c, i)

IncompleteUnicode(tok) == IncompleteLoop(tok, 1)

InitUnicode ==
    /\ cfg = BaseConfig
    /\ InitDecoder
    /\ InitStopIdle
    /\ token \in StringsUpTo(UnicodeBytes, MaxTokenLen)
    /\ iuOut = [done |-> FALSE]

CallIncompleteUnicode ==
    /\ ~iuOut.done
    /\ iuOut' = [done |-> TRUE, incomplete |-> IncompleteUnicode(token)]
    /\ UNCHANGED <<decoderVars, stopVars, token>>

NextUnicode == CallIncompleteUnicode

SpecUnicode == InitUnicode /\ [][NextUnicode]_vars

(***************************************************************************)
(* Properties of TruncateStop and IncompleteUnicode.                       *)
(***************************************************************************)
Joined == Concat(resps)

\* The offsets at which the stop string occurs in the joined contents.
StopOffsets ==
    {i \in 0..Len(Joined) :
        i + Len(stop) <= Len(Joined) /\ SubSeq(Joined, i + 1, i + Len(stop)) = stop}

FirstStop == CHOOSE i \in StopOffsets : \A j \in StopOffsets : i <= j

IsPrefix(a, b) == Len(a) <= Len(b) /\ SubSeq(b, 1, Len(a)) = a

\* res[1], res[2], ... are prefixes of pieces taken in input order.
RECURSIVE PrefixesInOrder(_, _)
PrefixesInOrder(res, pieces) ==
    IF res = <<>> THEN TRUE
    ELSE IF pieces = <<>> THEN FALSE
    ELSE \/ IsPrefix(Head(res), Head(pieces)) /\ PrefixesInOrder(Tail(res), Tail(pieces))
         \/ PrefixesInOrder(res, Tail(pieces))

\* C8: when the stop occurs, the returned contents joined are the joined
\* input strictly before its first occurrence, each returned piece is a
\* prefix of an input piece, in input order, and none is empty; when it
\* does not occur, the input comes back unchanged with the flag false.
C8_TruncateRemovesStop ==
    tsOut.done =>
        IF StopOffsets = {}
        THEN tsOut.pieces = resps /\ ~tsOut.truncated
        ELSE /\ Concat(tsOut.pieces) = SubSeq(Joined, 1, FirstStop)
             /\ \A j \in 1..Len(tsOut.pieces) : tsOut.pieces[j] # <<>>
             /\ PrefixesInOrder(tsOut.pieces, resps)

C8_Witness ==
    /\ tsOut.done /\ StopOffsets # {}
    /\ Len(resps) = 3 /\ resps[2] = <<>>
    /\ Len(tsOut.pieces) = 2
    /\ Len(tsOut.pieces[2]) < Len(resps[3])

\* The length of the first k pieces together.
RECURSIVE Offset(_)
Offset(k) == IF k = 0 THEN 0 ELSE Offset(k - 1) + Len(resps[k])

\* The input piece holding the last byte before the stop.
SourceOfLast ==
    CHOOSE k \in 1..Len(resps) : Offset(k - 1) < FirstStop /\ FirstStop <= Offset(k)

LastPieceCut ==
    /\ tsOut.pieces # <<>>
    /\ Len(tsOut.pieces[Len(tsOut.pieces)]) < Len(resps[SourceOfLast])

CutOnBoundary == \E k \in 0..Len(resps) : Offset(k) = FirstStop

\* C9: the flag is true exactly when the last returned piece is strictly
\* shorter than the input piece it was taken from, and false when the cut
\* falls on a piece boundary (stated here for a non-empty stop string and
\* non-empty pieces).
C9_FlagIffLastPieceCut ==
    (tsOut.done /\ StopOffsets # {} /\ stop # <<>>
        /\ \A k \in 1..Len(resps) : resps[k] # <<>>) =>
        /\ tsOut.truncated <=> LastPieceCut
        /\ CutOnBoundary => ~tsOut.truncated

\* Byte classes by value range.
IsContinuation(c) == c \in 128..191
ContinuationsNeeded(c) ==
    IF c \in 192..223 THEN 1
    ELSE IF c \in 224..239 THEN 2
    ELSE IF c \in 240..247 THEN 3
    ELSE 0

\* The number of continuation bytes the token ends in.
TrailingContinuations ==
    CHOOSE t \in 0..Len(token) :
        /\ \A j \in 1..t : IsContinuation(token[Len(token) - j + 1])
        /\ t < Len(token) => ~IsContinuation(token[Len(token) - t])

\* The token ends in a multi-byte lead, found within its final 4 bytes,
\* followed by fewer continuation bytes than the lead requires.
EndsTruncated ==
    LET t == TrailingContinuations
    IN /\ t < Len(token)
       /\ t < 4
       /\ t < ContinuationsNeeded(token[Len(token) - t])

\* C10: IncompleteUnicode is true exactly when the byte string ends in a
\* truncated multi-byte character.
C10_IncompleteIffTruncated ==
    iuOut.done => (iuOut.incomplete <=> EndsTruncated)

C10_Witness ==
    /\ iuOut.done /\ iuOut.incomplete
    /\ Len(token) = 4
    /\ token[2] = 240 /\ token[3] = 128 /\ token[4] = 128

====
